---- MODULE Spec2Model ----
\* Model of the benchmark controller of src/scripts/run_benchmark.py:
\* run_aspect_experiment drives every (task, mode) pair through
\* run_single_task (reset, pre-test, prompt, provider, extract, apply,
\* post-test, score) and aggregates per-mode counters.
EXTENDS Integers, Sequences, FiniteSets, TLC

\* ---------------------------------------------------------------- bounds
NumTasks == 1
MaxTests == 1
MaxBlocks == 1
MaxFences == 2
MaxContent == 2
MaxLines == 2
MaxChanges == 2

\* ------------------------------------------------------------- constants
DEFAULT_MODES == <<"baseline", "aspect">>

\* extract_code_blocks looks for the filepath annotation in the lines of a
\* fenced region whose index is below this number
AnnotationWindow == 3

None == "None"
NoFile == "NoFile"

\* content of a path as of the last committed revision (absent, for a path
\* that is not version-controlled); the content a block writes is the
\* positive number that identifies the block's code
HEAD == 0

\* Path classes of the target repository's working tree, as git sees them:
\* a version-controlled file, a path git does not know (untracked), and a
\* path matched by the repository's ignore rules.
Paths == {"tracked", "untracked", "ignored"}

StageOrder ==
    <<"RESET", "PRE_TEST", "LOAD_PROMPT", "INVOKE_AGENT",
      "EXTRACT", "APPLY", "POST_TEST", "SCORE">>

\* The tree as of the last committed revision: every tracked file has its
\* committed content and no other path exists.
CleanTree == [p \in Paths |-> HEAD]

\* -------------------------------------------------------- test adapter
\* What the test-runner child process hands back: the exit code of
\* run_tests_for_task.py (0 or 1) and the numbers its stdout summary shows.
\* A summary with failed tests never comes with exit code 0.
RunnerOutputs ==
    { o \in [exit_code : {0, 1}, n_passed : 0..MaxTests, n_failed : 0..MaxTests] :
        /\ o.n_passed + o.n_failed <= MaxTests
        /\ (o.n_failed > 0 => o.exit_code # 0) }

run_tests_failed_count(o) ==
    [passed       |-> (o.n_failed = 0),
     exit_code    |-> o.exit_code,
     tests_passed |-> o.n_passed,
     tests_failed |-> o.n_failed,
     tests_total  |-> o.n_passed + o.n_failed]

run_tests(o) ==
    [passed       |-> (o.exit_code = 0),
     exit_code    |-> o.exit_code,
     tests_passed |-> o.n_passed,
     tests_failed |-> o.n_failed,
     tests_total  |-> o.n_passed + o.n_failed]

is_code_broken_total_only(t) == t.tests_total = 0

is_code_broken(t) == t.tests_total = 0 /\ t.exit_code # 0

\* ------------------------------------------------------ repository reset
ResetOutcomes == {"ok", "checkout_failed", "clean_failed"}

\* git checkout . : every version-controlled file back to its committed content
git_checkout(t) == [t EXCEPT !["tracked"] = HEAD]

\* git clean -fd : removes untracked files and directories; paths matched by
\* the ignore rules are left alone (no -x)
git_clean_dry_run(t) == t

git_clean(t) == [t EXCEPT !["untracked"] = HEAD]

reset_repo_tree(t, outcome) ==
    CASE outcome = "ok"              -> git_clean(git_checkout(t))
      [] outcome = "clean_failed"    -> git_checkout(t)
      [] outcome = "checkout_failed" -> t

reset_repo(outcome) == outcome = "ok"

\* --------------------------------------------------- extraction / apply
\* A provider response is the sequence of its fenced regions. A region has
\* at most one filepath annotation line: line is its position among the
\* region's lines (0: the region has none) and file the path it names. code
\* identifies what is left of the region once the annotation line inside the
\* window is dropped and the text is stripped (0: nothing is left). An
\* annotation line outside the window is itself part of the code.
RichFences ==
    { f \in [line : 0..(AnnotationWindow + 1),
             file : Paths \cup {NoFile},
             code : 0..MaxContent] :
        /\ (f.line = 0) <=> (f.file = NoFile)
        /\ (f.line > AnnotationWindow) => f.code # 0 }

\* the responses of the experiment's runs: an annotation, if any, is the
\* first line of its region, and no region is empty
Fences == { f \in RichFences : f.line <= 1 /\ f.code = 1 }

RECURSIVE SeqsUpTo(_, _)
SeqsUpTo(S, n) ==
    IF n = 0 THEN { <<>> }
    ELSE LET shorter == SeqsUpTo(S, n - 1)
         IN shorter \cup { Append(s, x) : s \in { q \in shorter : Len(q) = n - 1 }, x \in S }

Responses == SeqsUpTo(Fences, MaxBlocks)

RichResponses == SeqsUpTo(RichFences, MaxFences)

\* the path of a region: its annotation counts only on one of the first
\* AnnotationWindow lines
filepath_of_any_line(f) == IF f.line >= 1 THEN f.file ELSE NoFile

filepath_of(f) == IF f.line \in 1..AnnotationWindow THEN f.file ELSE NoFile

\* one block per region whose stripped code is not empty, annotated or not
RECURSIVE extract_code_blocks(_)
extract_code_blocks(resp) ==
    IF resp = <<>> THEN <<>>
    ELSE LET f == Head(resp)
         IN (IF f.code # 0
             THEN << [file |-> filepath_of(f), code |-> f.code] >>
             ELSE <<>>) \o extract_code_blocks(Tail(resp))

HasFile(b) == b.file # NoFile

blocks_with_files_all(bs) == bs

blocks_with_files(bs) == SelectSeq(bs, HasFile)

\* apply_code_blocks: every block whose write succeeds replaces the file.
RECURSIVE apply_tree_stops_at_failure(_, _, _, _)
apply_tree_stops_at_failure(t, bs, i, failing) ==
    IF i > Len(bs) \/ i \in failing THEN t
    ELSE IF ~HasFile(bs[i])
         THEN apply_tree_stops_at_failure(t, bs, i + 1, failing)
         ELSE apply_tree_stops_at_failure([t EXCEPT ![bs[i].file] = bs[i].code],
                                          bs, i + 1, failing)

RECURSIVE apply_tree_first_wins(_, _, _, _)
apply_tree_first_wins(t, bs, i, failing) ==
    IF i > Len(bs) THEN t
    ELSE LET later == apply_tree_first_wins(t, bs, i + 1, failing)
         IN IF (~HasFile(bs[i])) \/ i \in failing
            THEN later
            ELSE [later EXCEPT ![bs[i].file] = bs[i].code]

RECURSIVE apply_tree(_, _, _, _)
apply_tree(t, bs, i, failing) ==
    IF i > Len(bs) THEN t
    ELSE IF (~HasFile(bs[i])) \/ i \in failing
         THEN apply_tree(t, bs, i + 1, failing)
         ELSE apply_tree([t EXCEPT ![bs[i].file] = bs[i].code], bs, i + 1, failing)

RECURSIVE apply_files(_, _, _)
apply_files(bs, i, failing) ==
    IF i > Len(bs) THEN <<>>
    ELSE IF (~HasFile(bs[i])) \/ i \in failing
         THEN apply_files(bs, i + 1, failing)
         ELSE <<bs[i].file>> \o apply_files(bs, i + 1, failing)

\* ------------------------------------------------------------- scoring
tests_fixed_of(pre, post) == post.tests_passed - pre.tests_passed

classify_zero_is_fix(delta) ==
    IF delta >= 0 THEN "fix"
    ELSE "regression"

classify(delta) ==
    IF delta > 0 THEN "fix"
    ELSE IF delta < 0 THEN "regression"
    ELSE "no-op"

\* ------------------------------------------------------------ run record
NewResult ==
    [pre_test               |-> <<>>,
     llm_response_length    |-> 0,
     code_blocks_extracted  |-> 0,
     files_modified         |-> <<>>,
     post_test              |-> <<>>,
     tests_fixed            |-> 0,
     success                |-> FALSE,
     error                  |-> None]

\* ------------------------------------------- test adapter command line
\* run_tests_for_task.py: the selection of its command line, what it finds
\* on disk, and the exit code pytest returns for each suite it is asked to
\* run (0 all passed, 1 some failed, 5 nothing collected, 127 no pytest).
Selections == {"task", "all", "task_with_regression", "regression_only"}

PytestExitCodes == {0, 1, 5, 127}

AdapterInputs ==
    [selection       : Selections,
     task_found      : BOOLEAN,
     test_file       : BOOLEAN,
     regression_file : BOOLEAN,
     any_test_files  : BOOLEAN,
     task_rc         : PytestExitCodes,
     regression_rc   : PytestExitCodes,
     all_rc          : PytestExitCodes]

run_regression_tests(a) == IF ~a.regression_file THEN 0 ELSE a.regression_rc

run_all_benchmark_tests(a) == IF ~a.any_test_files THEN 1 ELSE a.all_rc

run_tests_for_task(a, with_regression) ==
    IF ~a.task_found THEN 1
    ELSE IF ~a.test_file THEN 1
    ELSE IF a.task_rc = 0 /\ (with_regression => run_regression_tests(a) = 0) THEN 0
    ELSE 1

adapter_main(a) ==
    CASE a.selection = "regression_only"       -> run_regression_tests(a)
      [] a.selection = "all"                   -> run_all_benchmark_tests(a)
      [] a.selection = "task"                  -> run_tests_for_task(a, FALSE)
      [] a.selection = "task_with_regression"  -> run_tests_for_task(a, TRUE)

\* the pytest invocations the adapter makes
adapter_invocations(a) ==
    CASE a.selection = "regression_only" ->
            IF a.regression_file THEN {"regression"} ELSE {}
      [] a.selection = "all" ->
            IF a.any_test_files THEN {"all"} ELSE {}
      [] a.selection \in {"task", "task_with_regression"} ->
            IF ~a.task_found \/ ~a.test_file THEN {}
            ELSE {"task"} \cup
                 (IF a.selection = "task_with_regression" /\ a.regression_file
                  THEN {"regression"} ELSE {})

\* what run_tests gets back for a task that has no definition or no test
\* file: exit code 1 and an output without a summary line
TaskNotFoundOutput ==
    [exit_code |-> run_tests_for_task(
                       [selection |-> "task", task_found |-> FALSE, test_file |-> FALSE,
                        regression_file |-> FALSE, any_test_files |-> FALSE,
                        task_rc |-> 0, regression_rc |-> 0, all_rc |-> 0], FALSE),
     n_passed  |-> 0,
     n_failed  |-> 0]

\* ------------------------------------------------ parsing of the counts
\* A line of the adapter's output, for what run_tests looks for: the number
\* in front of "passed" and the number in front of "failed", NoMatch when
\* the line has no such text.
NoMatch == -1

OutputLines == [passed : NoMatch..MaxTests, failed : NoMatch..MaxTests]

Stdouts == SeqsUpTo(OutputLines, MaxLines)

RECURSIVE first_match_no_default(_, _)
first_match_no_default(lines, field) ==
    IF lines = <<>> THEN NoMatch
    ELSE IF Head(lines)[field] # NoMatch THEN Head(lines)[field]
    ELSE first_match_no_default(Tail(lines), field)

\* re.search over the whole output: the first occurrence, 0 without one
RECURSIVE first_match(_, _)
first_match(lines, field) ==
    IF lines = <<>> THEN 0
    ELSE IF Head(lines)[field] # NoMatch THEN Head(lines)[field]
    ELSE first_match(Tail(lines), field)

parse_counts(lines) ==
    [n_passed |-> first_match(lines, "passed"),
     n_failed |-> first_match(lines, "failed")]

\* ------------------------------------------- where apply writes a block
\* A directory is the sequence of its components below the repository root
\* (<<>> is the root itself); <<UP>> is a directory outside the root, which
\* a filepath reaches when it is absolute or starts with "..". A change is
\* given by the directory part of its filepath.
BACKEND == "backend"
UP == ".."
Names == {BACKEND, "app", "pkg"}

PathDirs ==
    {<<>>, <<UP>>} \cup { <<n>> : n \in Names } \cup { <<n, m>> : n \in Names, m \in Names }

\* the directories that exist before apply: the root, what is outside it,
\* some top-level directories and some directories of the backend
InitialDirs ==
    { D \in { {<<>>, <<UP>>} \cup { <<n>> : n \in T } \cup { <<BACKEND, n>> : n \in B } :
                 T \in SUBSET Names, B \in SUBSET Names } :
        (\E n \in Names : <<BACKEND, n>> \in D) => <<BACKEND>> \in D }

starts_with_app(d) == d # <<>> /\ d[1] = "app"

resolve_always_fallback(d, dirs) ==
    IF d \notin dirs THEN <<BACKEND>> \o d ELSE d

\* the directory apply_code_blocks writes a block into
resolve(d, dirs) ==
    IF d \notin dirs
    THEN IF (<<BACKEND>> \o d) \in dirs \/ starts_with_app(d)
         THEN <<BACKEND>> \o d
         ELSE d
    ELSE d

\* target.parent.mkdir(parents=True, exist_ok=True)
mkdir_parents(d, dirs) == dirs \cup { SubSeq(d, 1, k) : k \in 0..Len(d) }

NotCalled == <<>>

NoApply == [dirs0 |-> {}, dirs |-> {}, changes |-> <<>>, next |-> 1, written |-> <<>>]

VARIABLES
    pc,                \* position of the controller / of run_single_task
    ti,                \* index of the current task in all_tasks_to_run
    mi,                \* index of the current mode in modes
    result,            \* the record run_single_task is filling
    response,          \* provider response of the current run
    blocks,            \* blocks extracted from the response
    tree,              \* working tree of the target repository
    stages,            \* stages the current run has executed, with outcome
    classification,    \* what the run's summary line says about its delta
    reg_flips,         \* regression-suite tests the current edit turned from pass to fail
    summary,           \* results["summary"]
    test_improvements, \* results["test_improvements"]
    true_regressions,  \* results["true_regressions"]
    task_results,      \* records of the current task, one per mode run so far
    tasks,             \* results["tasks"]
    statuses,          \* per-run status line printed by the controller
    persisted,         \* number of result documents written
    write_failures,    \* blocks of the apply step just taken whose write raised
    stdout,            \* lines the test adapter printed, as run_tests reads them
    adapter,           \* one call of the test adapter: what it was given, what it did
    fs                 \* directories of the target repository and the writes of apply

vars == <<pc, ti, mi, result, response, blocks, tree, stages, classification,
          reg_flips, summary, test_improvements, true_regressions,
          task_results, tasks, statuses, persisted, write_failures,
          stdout, adapter, fs>>

ModeNames == { DEFAULT_MODES[i] : i \in 1..Len(DEFAULT_MODES) }

Init ==
    /\ pc = "reset"
    /\ ti = 1
    /\ mi = 1
    /\ result = NewResult
    /\ response = <<>>
    /\ blocks = <<>>
    /\ tree = CleanTree
    /\ stages = <<>>
    /\ classification = None
    /\ reg_flips = 0
    /\ summary = [m \in ModeNames |-> [total |-> 0, passed |-> 0, failed |-> 0, errors |-> 0]]
    /\ test_improvements = [m \in ModeNames |-> 0]
    /\ true_regressions = [m \in ModeNames |-> 0]
    /\ task_results = <<>>
    /\ tasks = <<>>
    /\ statuses = <<>>
    /\ persisted = 0
    /\ write_failures = {}
    /\ stdout = <<>>
    /\ adapter = NotCalled
    /\ fs = NoApply

CurMode == DEFAULT_MODES[mi]

Log(stage, outcome) == Append(stages, <<stage, outcome>>)

\* where run_single_task goes after each stage that can fail
after_reset_keeps_going(ok) == "pre_test"

after_reset(ok) == IF ok THEN "pre_test" ELSE "aggregate"
after_load_prompt(found) == IF found THEN "invoke_agent" ELSE "aggregate"
after_extract(bwf) == IF Len(bwf) = 0 THEN "aggregate" ELSE "apply"

after_invoke_agent_retries(ok) == IF ok THEN "extract" ELSE "invoke_agent"

after_invoke_agent(ok) == IF ok THEN "extract" ELSE "aggregate"

\* Step 1: reset_repo; a failure returns the record with its error set
Reset ==
    /\ pc = "reset"
    /\ \E o \in ResetOutcomes :
        /\ tree' = reset_repo_tree(tree, o)
        /\ stages' = Log("RESET", IF reset_repo(o) THEN "ok" ELSE "fail")
        /\ pc' = after_reset(reset_repo(o))
        /\ result' = IF reset_repo(o) THEN result
                     ELSE [result EXCEPT !.error = "Failed to reset repository"]
    /\ UNCHANGED <<ti, mi, response, blocks, classification, reg_flips, summary,
                   test_improvements, true_regressions, task_results, tasks,
                   statuses, persisted, write_failures, stdout, adapter, fs>>

\* Step 2: pre-tests
PreTest ==
    /\ pc = "pre_test"
    /\ \E o \in RunnerOutputs :
        result' = [result EXCEPT !.pre_test = <<run_tests(o)>>]
    /\ stages' = Log("PRE_TEST", "ok")
    /\ pc' = "load_prompt"
    /\ UNCHANGED <<ti, mi, response, blocks, tree, classification, reg_flips,
                   summary, test_improvements, true_regressions, task_results,
                   tasks, statuses, persisted, write_failures, stdout, adapter, fs>>

\* Step 3: load_prompt; a missing (or empty) prompt file ends the run
LoadPrompt ==
    /\ pc = "load_prompt"
    /\ \E found \in BOOLEAN :
        /\ stages' = Log("LOAD_PROMPT", IF found THEN "ok" ELSE "fail")
        /\ pc' = after_load_prompt(found)
        /\ result' = IF found THEN result
                     ELSE [result EXCEPT !.error = "Failed to load prompt"]
    /\ UNCHANGED <<ti, mi, response, blocks, tree, classification, reg_flips,
                   summary, test_improvements, true_regressions, task_results,
                   tasks, statuses, persisted, write_failures, stdout, adapter, fs>>

\* Step 4: one provider call; an exception is caught by the except clause
InvokeAgentOk ==
    /\ pc = "invoke_agent"
    /\ \E r \in Responses :
        /\ response' = r
        /\ result' = [result EXCEPT !.llm_response_length = Len(r)]
    /\ stages' = Log("INVOKE_AGENT", "ok")
    /\ pc' = after_invoke_agent(TRUE)
    /\ UNCHANGED <<ti, mi, blocks, tree, classification, reg_flips, summary,
                   test_improvements, true_regressions, task_results, tasks,
                   statuses, persisted, write_failures, stdout, adapter, fs>>

InvokeAgentFail ==
    /\ pc = "invoke_agent"
    /\ result' = [result EXCEPT !.error = "provider error"]
    /\ stages' = Log("INVOKE_AGENT", "fail")
    /\ pc' = after_invoke_agent(FALSE)
    /\ UNCHANGED <<ti, mi, response, blocks, tree, classification, reg_flips,
                   summary, test_improvements, true_regressions, task_results,
                   tasks, statuses, persisted, write_failures, stdout, adapter, fs>>

\* the error run_single_task sets when no block carries a filepath
extract_error_unset(bwf, old) == old

extract_error(bwf, old) ==
    IF Len(bwf) = 0 THEN "No code blocks with filepath extracted" ELSE old

\* Step 5a: extract; no block with a filepath ends the run with an error
Extract ==
    /\ pc = "extract"
    /\ LET bs  == extract_code_blocks(response)
           bwf == blocks_with_files(bs)
       IN /\ blocks' = bwf
          /\ result' = [result EXCEPT
                          !.code_blocks_extracted = Len(bs),
                          !.error = extract_error(bwf, @)]
          /\ stages' = Log("EXTRACT", IF Len(bwf) = 0 THEN "fail" ELSE "ok")
          /\ pc' = after_extract(bwf)
    /\ UNCHANGED <<ti, mi, response, tree, classification, reg_flips, summary,
                   test_improvements, true_regressions, task_results, tasks,
                   statuses, persisted, write_failures, stdout, adapter, fs>>

\* Step 5b: apply_code_blocks; a failed write is skipped
Apply ==
    /\ pc = "apply"
    /\ \E failing \in SUBSET (1..Len(blocks)) :
        /\ tree' = apply_tree(tree, blocks, 1, failing)
        /\ result' = [result EXCEPT !.files_modified = apply_files(blocks, 1, failing)]
        /\ write_failures' = failing
    /\ stages' = Log("APPLY", "ok")
    /\ pc' = "post_test"
    /\ UNCHANGED <<ti, mi, response, blocks, classification, reg_flips, summary,
                   test_improvements, true_regressions, task_results, tasks,
                   statuses, persisted, stdout, adapter, fs>>

\* Step 6: post-tests (task tests only: with_regression is not passed)
PostTest ==
    /\ pc = "post_test"
    /\ \E o \in RunnerOutputs :
        result' = [result EXCEPT !.post_test = <<run_tests(o)>>]
    /\ stages' = Log("POST_TEST", "ok")
    /\ pc' = "score"
    /\ response' = <<>>
    /\ blocks' = <<>>
    /\ write_failures' = {}
    /\ UNCHANGED <<ti, mi, tree, classification, reg_flips, summary,
                   test_improvements, true_regressions, task_results, tasks,
                   statuses, persisted, stdout, adapter, fs>>

\* success flag, tests_fixed and the summary line of the run
Score ==
    /\ pc = "score"
    /\ LET pre   == result.pre_test[1]
           post  == result.post_test[1]
           delta == tests_fixed_of(pre, post)
       IN /\ result' = [result EXCEPT !.success = post.passed, !.tests_fixed = delta]
          /\ classification' = classify(delta)
    /\ stages' = Log("SCORE", "ok")
    /\ pc' = "aggregate"
    /\ UNCHANGED <<ti, mi, response, blocks, tree, reg_flips, summary,
                   test_improvements, true_regressions, task_results, tasks,
                   statuses, persisted, write_failures, stdout, adapter, fs>>

\* ------------------------------------------------------------ controller
\* what the controller keeps of a run in task_results[mode]
stored_record(r, mode) ==
    [mode         |-> mode,
     error        |-> r.error,
     success      |-> r.success,
     tests_fixed  |-> r.tests_fixed,
     has_pre_test  |-> (r.pre_test # <<>>),
     has_post_test |-> (r.post_test # <<>>)]

status_of(r) ==
    IF r.error # None THEN "ERROR"
    ELSE IF r.success THEN "PASSED"
    ELSE "FAILED"

update_summary_by_success(s, r) ==
    IF r.success THEN [s EXCEPT !.total = @ + 1, !.passed = @ + 1]
    ELSE [s EXCEPT !.total = @ + 1, !.failed = @ + 1]

update_summary_error_also_failed(s, r) ==
    IF r.error # None THEN [s EXCEPT !.total = @ + 1, !.errors = @ + 1, !.failed = @ + 1]
    ELSE IF r.success THEN [s EXCEPT !.total = @ + 1, !.passed = @ + 1]
    ELSE [s EXCEPT !.total = @ + 1, !.failed = @ + 1]

update_summary(s, r) ==
    IF r.error # None THEN [s EXCEPT !.total = @ + 1, !.errors = @ + 1]
    ELSE IF r.success THEN [s EXCEPT !.total = @ + 1, !.passed = @ + 1]
    ELSE [s EXCEPT !.total = @ + 1, !.failed = @ + 1]

improvement_of_gains_only(r) == IF r.tests_fixed > 0 THEN r.tests_fixed ELSE 0

improvement_of(r) == r.tests_fixed

regression_increment(r) == IF r.tests_fixed < 0 THEN 1 ELSE 0

\* the per-mode status print reads pre_test.get(...): it raises on a record
\* whose pre_test is None
status_print_raises(r) == r.pre_test = <<>>

\* the body of the mode loop after run_single_task has returned, and the
\* step to the next pair
Aggregate ==
    /\ pc = "aggregate"
    /\ summary' = [summary EXCEPT ![CurMode] = update_summary(@, result)]
    /\ test_improvements' = [test_improvements EXCEPT ![CurMode] = @ + improvement_of(result)]
    /\ true_regressions' = [true_regressions EXCEPT ![CurMode] = @ + regression_increment(result)]
    /\ IF status_print_raises(result)
       THEN /\ pc' = "crashed"
            /\ task_results' = Append(task_results, stored_record(result, CurMode))
            /\ UNCHANGED <<ti, mi, result, stages, classification, reg_flips,
                           tasks, statuses>>
       ELSE /\ statuses' = Append(statuses, status_of(result))
            /\ result' = NewResult
            /\ stages' = <<>>
            /\ classification' = None
            /\ reg_flips' = 0
            /\ IF mi < Len(DEFAULT_MODES)
               THEN /\ mi' = mi + 1
                    /\ ti' = ti
                    /\ task_results' = Append(task_results, stored_record(result, CurMode))
                    /\ tasks' = tasks
                    /\ pc' = "reset"
               ELSE /\ mi' = 1
                    /\ ti' = ti + 1
                    /\ task_results' = <<>>
                    /\ tasks' = Append(tasks, Append(task_results, stored_record(result, CurMode)))
                    /\ pc' = IF ti < NumTasks THEN "reset" ELSE "persist"
    /\ response' = <<>>
    /\ UNCHANGED <<blocks, tree, persisted, write_failures, stdout, adapter, fs>>

\* results_file.write_text at the end of the matrix
Persist ==
    /\ pc = "persist"
    /\ persisted' = persisted + 1
    /\ pc' = "done"
    /\ UNCHANGED <<ti, mi, result, response, blocks, tree, stages, classification,
                   reg_flips, summary, test_improvements, true_regressions,
                   task_results, tasks, statuses, write_failures, stdout, adapter, fs>>

\* What the edit did to the regression suite is a fact of the edited tree
\* that the controller never observes (run_tests is called without
\* with_regression). RegressedTests makes that fact visible for the run that
\* is about to be aggregated: k regression-suite tests, none of them in the
\* known-failing set, pass before the edit and fail after it.
RegressedTests ==
    /\ pc = "aggregate"
    /\ result.post_test # <<>>
    /\ reg_flips = 0
    /\ \E k \in 1..MaxTests : reg_flips' = k
    /\ UNCHANGED <<pc, ti, mi, result, response, blocks, tree, stages, classification,
                   summary, test_improvements, true_regressions, task_results,
                   tasks, statuses, persisted, write_failures, stdout, adapter, fs>>

Next ==
    \/ Reset
    \/ PreTest
    \/ LoadPrompt
    \/ InvokeAgentOk
    \/ InvokeAgentFail
    \/ Extract
    \/ Apply
    \/ PostTest
    \/ Score
    \/ Aggregate
    \/ Persist

Spec == Init /\ [][Next]_vars

\* The runs of the first task only: what one run does, whatever the number
\* of tasks of the matrix.
InFirstTask == Len(tasks) = 0 /\ pc # "persist"

FirstTaskNext ==
    \/ InFirstTask /\ Reset
    \/ InFirstTask /\ PreTest
    \/ InFirstTask /\ LoadPrompt
    \/ InFirstTask /\ InvokeAgentOk
    \/ InFirstTask /\ InvokeAgentFail
    \/ InFirstTask /\ Extract
    \/ InFirstTask /\ Apply
    \/ InFirstTask /\ PostTest
    \/ InFirstTask /\ Score
    \/ InFirstTask /\ Aggregate

FirstTaskSpec == Init /\ [][FirstTaskNext]_vars

\* The experiment together with the regression suite's verdict on each edit.
RegressionNext ==
    \/ Next
    \/ RegressedTests

RegressionSpec == Init /\ [][RegressionNext]_vars

\* The experiment on responses of at most one fenced region: what the
\* controller counts does not depend on how many regions a response has.
SummaryNext ==
    \/ Reset
    \/ PreTest
    \/ LoadPrompt
    \/ InvokeAgentOk /\ Len(response') <= 1
    \/ InvokeAgentFail
    \/ Extract
    \/ Apply
    \/ PostTest
    \/ Score
    \/ Aggregate
    \/ Persist

SummarySpec == Init /\ [][SummaryNext]_vars

\* The experiment as a sequential program that keeps taking its next step.
LiveSpec == Init /\ [][Next]_vars /\ WF_vars(Next)

\* main(): what the command line and the environment give it. An unknown
\* --provider is refused by the argument parser; --modes takes any list of
\* names and main does not look at them.
CommandLines ==
    [provider_known : BOOLEAN, repo : BOOLEAN, api_key : BOOLEAN, package : BOOLEAN]

main_exit(a) ==
    IF ~a.provider_known THEN "exit_usage"
    ELSE IF ~a.repo THEN "exit_no_repo"
    ELSE IF ~a.api_key THEN "exit_no_api_key"
    ELSE IF ~a.package THEN "exit_no_package"
    ELSE "reset"

Main ==
    /\ pc = "main"
    /\ \E a \in CommandLines : pc' = main_exit(a)
    /\ UNCHANGED <<ti, mi, result, response, blocks, tree, stages, classification,
                   reg_flips, summary, test_improvements, true_regressions,
                   task_results, tasks, statuses, persisted, write_failures, stdout, adapter, fs>>

MainInit ==
    /\ pc = "main"
    /\ ti = 1
    /\ mi = 1
    /\ result = NewResult
    /\ response = <<>>
    /\ blocks = <<>>
    /\ tree = CleanTree
    /\ stages = <<>>
    /\ classification = None
    /\ reg_flips = 0
    /\ summary = [m \in ModeNames |-> [total |-> 0, passed |-> 0, failed |-> 0, errors |-> 0]]
    /\ test_improvements = [m \in ModeNames |-> 0]
    /\ true_regressions = [m \in ModeNames |-> 0]
    /\ task_results = <<>>
    /\ tasks = <<>>
    /\ statuses = <<>>
    /\ persisted = 0
    /\ write_failures = {}
    /\ stdout = <<>>
    /\ adapter = NotCalled
    /\ fs = NoApply

MainNext ==
    \/ Main
    \/ Next

MainSpec == MainInit /\ [][MainNext]_vars

\* Extraction and application on their own: a run of the first pair that
\* has just received its provider response, for every response made of up to
\* MaxFences fenced regions, on a tree whose ignored path holds whatever an
\* earlier run left there.
ExtractInit ==
    /\ pc = "extract"
    /\ ti = 1
    /\ mi = 1
    /\ response \in RichResponses
    /\ result = [NewResult EXCEPT
                   !.pre_test = << run_tests([exit_code |-> 1, n_passed |-> 0, n_failed |-> 1]) >>,
                   !.llm_response_length = Len(response)]
    /\ blocks = <<>>
    /\ tree \in { [CleanTree EXCEPT !["ignored"] = c] : c \in 0..MaxContent }
    /\ stages = << <<"RESET", "ok">>, <<"PRE_TEST", "ok">>,
                   <<"LOAD_PROMPT", "ok">>, <<"INVOKE_AGENT", "ok">> >>
    /\ classification = None
    /\ reg_flips = 0
    /\ summary = [m \in ModeNames |-> [total |-> 0, passed |-> 0, failed |-> 0, errors |-> 0]]
    /\ test_improvements = [m \in ModeNames |-> 0]
    /\ true_regressions = [m \in ModeNames |-> 0]
    /\ task_results = <<>>
    /\ tasks = <<>>
    /\ statuses = <<>>
    /\ persisted = 0
    /\ write_failures = {}
    /\ stdout = <<>>
    /\ adapter = NotCalled
    /\ fs = NoApply

ExtractNext ==
    \/ Extract
    \/ Apply

ExtractSpec == ExtractInit /\ [][ExtractNext]_vars

\* The experiment on tasks that have no test target: every call of the test
\* adapter ends with "task not found" / "test file not found".
UnknownTaskNext ==
    \/ Reset
    \/ PreTest /\ result'.pre_test = << run_tests(TaskNotFoundOutput) >>
    \/ LoadPrompt
    \/ InvokeAgentOk
    \/ InvokeAgentFail
    \/ Extract
    \/ Apply
    \/ PostTest /\ result'.post_test = << run_tests(TaskNotFoundOutput) >>
    \/ Score
    \/ Aggregate
    \/ Persist

UnknownTaskSpec == Init /\ [][UnknownTaskNext]_vars

\* ----------------------------------------------------------------- claims
RECURSIVE Flatten(_)
Flatten(ss) == IF ss = <<>> THEN <<>> ELSE Head(ss) \o Flatten(Tail(ss))

\* every record the controller has stored so far, in the order of the runs
AllRecords == Flatten(tasks) \o task_results

RECURSIVE SumFixed(_, _)
SumFixed(rs, m) ==
    IF rs = <<>> THEN 0
    ELSE (IF Head(rs).mode = m THEN Head(rs).tests_fixed ELSE 0) + SumFixed(Tail(rs), m)

RunReturned == pc \in {"aggregate", "crashed"}

StageFailed == \E i \in 1..Len(stages) : stages[i][2] = "fail"

ResetFailed == stages # <<>> /\ stages[1] = <<"RESET", "fail">>

HasPost == result.post_test # <<>>

\* C1: a failure of any stage of a run sets the run's error field and halts
\* only that run: the controller does not stop, and at the end of the
\* experiment every (task, mode) pair of the matrix has been executed.
C1_FailureHaltsOnlyThatRun ==
    /\ (RunReturned /\ StageFailed) => result.error # None
    /\ pc # "crashed"
    /\ pc = "done" => Len(AllRecords) = NumTasks * Len(DEFAULT_MODES)

\* C2: within a run the stages execute in the fixed order RESET, PRE_TEST,
\* LOAD_PROMPT, INVOKE_AGENT, EXTRACT, APPLY, POST_TEST, SCORE: the k-th stage
\* executed is the k-th of the order (so none runs twice) and every stage
\* before the latest one completed successfully.
C2_StagesInFixedOrder ==
    /\ Len(stages) <= Len(StageOrder)
    /\ \A i \in 1..Len(stages) :
        /\ stages[i][1] = StageOrder[i]
        /\ (i < Len(stages) => stages[i][2] = "ok")

C2_Witness == pc = "aggregate" /\ Len(stages) = Len(StageOrder)

\* C3: when reset fails, the run's record reports an error, no later stage
\* of that run is executed, and the experiment goes on with the next pair
\* (the controller does not stop on that record).
C3_ResetFailureAbortsOnlyRun ==
    ResetFailed =>
        /\ result.error # None
        /\ Len(stages) = 1
        /\ pc # "crashed"

\* C4: the PRE_TEST of every run starts from the tree of the last committed
\* revision, whatever earlier runs wrote.
C4_PreTestStartsFromCommittedTree ==
    pc = "pre_test" => tree = CleanTree

\* C5 (as claimed): for a run that reached POST_TEST, success is true exactly
\* when post.failed = 0.
C5_SuccessIffNoFailedTests ==
    (pc = "aggregate" /\ HasPost) =>
        (result.success <=> result.post_test[1].tests_failed = 0)

\* C5 (amended): for a run whose post-test returned, success is true exactly
\* when the post-test invocation exited with code 0, whatever the delta is.
C5_SuccessIffExitZero ==
    (pc = "aggregate" /\ HasPost) =>
        (result.success <=> result.post_test[1].exit_code = 0)

\* a run that started already passing, changed nothing and is a success
C5_Witness ==
    /\ pc = "aggregate"
    /\ HasPost
    /\ result.success
    /\ result.tests_fixed = 0
    /\ result.pre_test[1].tests_passed > 0
    /\ result.pre_test[1].tests_failed = 0

\* C6: a run whose post-test is harness-broken (zero parsed tests, non-zero
\* exit) gets a per-run status and a per-mode summary update that differ from
\* those of the same run had its tests run and some of them failed.
C6_BrokenReportedDistinctly ==
    (pc = "aggregate" /\ HasPost /\ is_code_broken(result.post_test[1])) =>
        \A o \in RunnerOutputs :
            o.n_failed > 0 =>
                LET other == [result EXCEPT !.post_test = <<run_tests(o)>>,
                                            !.success = run_tests(o).passed]
                IN /\ status_of(result) # status_of(other)
                   /\ update_summary(summary[CurMode], result)
                        # update_summary(summary[CurMode], other)

TestResultsOfRun == { result.pre_test[i] : i \in 1..Len(result.pre_test) }
                    \cup { result.post_test[i] : i \in 1..Len(result.post_test) }

\* C7: a TestResult with no parsed test and a non-zero exit code is flagged
\* code-broken; one with no parsed test and exit code 0 is not; and none with
\* a parsed test is.
C7_CodeBrokenFlag ==
    \A t \in TestResultsOfRun :
        LET parsed == t.tests_passed + t.tests_failed
        IN /\ (parsed = 0 /\ t.exit_code # 0) => is_code_broken(t)
           /\ (parsed = 0 /\ t.exit_code = 0) => ~is_code_broken(t)
           /\ parsed # 0 => ~is_code_broken(t)

C7_Witness ==
    /\ HasPost
    /\ result.post_test[1].tests_total = 0
    /\ result.post_test[1].exit_code # 0
    /\ result.pre_test[1].tests_total = 0
    /\ result.pre_test[1].exit_code = 0

\* C8: each run adds to its mode's true-regression counter the number of
\* regression-suite tests that passed before the edit and fail after it
\* (known-failing tests excluded), so that the counter equals their number.
C8_TrueRegressionsCountTests ==
    [][(pc = "aggregate" /\ pc' # "aggregate") =>
          true_regressions'[CurMode] = true_regressions[CurMode] + reg_flips]_vars

\* C9: for a run that reached scoring, tests_fixed = post.passed - pre.passed
\* and the run is classified fix / regression / no-op by the sign of it.
C9_DeltaAndClassification ==
    (pc = "aggregate" /\ HasPost) =>
        /\ result.tests_fixed
             = result.post_test[1].tests_passed - result.pre_test[1].tests_passed
        /\ result.tests_fixed > 0 => classification = "fix"
        /\ result.tests_fixed < 0 => classification = "regression"
        /\ result.tests_fixed = 0 => classification = "no-op"

C9_Witness ==
    /\ pc = "aggregate"
    /\ HasPost
    /\ result.tests_fixed = 0
    /\ classification = "no-op"

ResetEntries == { i \in 1..Len(stages) : stages[i][1] = "RESET" }

TestEntries == { i \in 1..Len(stages) : stages[i][1] \in {"PRE_TEST", "POST_TEST"} }

InsideRun == pc \notin {"main", "reset", "persist", "done"}

\* C11: within a run RESET is invoked exactly once, before the run's
\* PRE_TEST, and no test invocation of the run happens unless that reset has
\* succeeded; a record whose reset failed carries no test result.
C11_ResetOnceBeforeTests ==
    /\ Cardinality(ResetEntries) <= 1
    /\ InsideRun => ResetEntries = {1}
    /\ \A i \in TestEntries : i > 1 /\ stages[1] = <<"RESET", "ok">>
    /\ (result.pre_test # <<>> \/ result.post_test # <<>>) =>
           (stages # <<>> /\ stages[1] = <<"RESET", "ok">>)

C11_Witness ==
    /\ pc = "aggregate"
    /\ Cardinality(TestEntries) = 2
    /\ ResetEntries = {1}
    /\ mi = 2

\* C12: the experiment over NumTasks tasks and the modes of the command
\* line ends with a persisted result document that holds exactly
\* NumTasks * (number of modes) run records, one per (task, mode) pair in the
\* order of the modes.
C12_OneRecordPerPair ==
    pc \in {"done", "crashed"} =>
        /\ persisted = 1
        /\ Len(tasks) = NumTasks
        /\ Len(Flatten(tasks)) = NumTasks * Len(DEFAULT_MODES)
        /\ \A t \in 1..Len(tasks) :
             /\ Len(tasks[t]) = Len(DEFAULT_MODES)
             /\ \A m \in 1..Len(tasks[t]) : tasks[t][m].mode = DEFAULT_MODES[m]

\* the records of the runs so far, the one being aggregated included
RecordsSoFar ==
    { AllRecords[i] : i \in 1..Len(AllRecords) }
        \cup (IF pc = "aggregate" THEN { stored_record(result, CurMode) } ELSE {})

\* C13 (as claimed): every run record whose error is not a provider error
\* has both a pre_test and a post_test.
C13_TestsUnlessProviderError ==
    \A r \in RecordsSoFar :
        r.error # "provider error" => (r.has_pre_test /\ r.has_post_test)

\* C13 (amended): every run record without an error has both a pre_test and
\* a post_test; a record with an error (reset, prompt, provider, extraction)
\* has no post_test.
C13_TestsUnlessError ==
    \A r \in RecordsSoFar :
        /\ r.error = None => (r.has_pre_test /\ r.has_post_test)
        /\ r.error # None => ~r.has_post_test

C13_Witness ==
    /\ \E r \in RecordsSoFar : r.error = None /\ r.has_pre_test /\ r.has_post_test
    /\ \E r \in RecordsSoFar :
         r.error = "No code blocks with filepath extracted"
            /\ r.has_pre_test /\ ~r.has_post_test

\* C14: the experiment eventually reaches the end of the matrix with exactly
\* one result document persisted that holds the record of every
\* (task, mode) run.
C14_EventuallyPersistsAll ==
    <>(/\ pc = "done"
       /\ persisted = 1
       /\ Len(Flatten(tasks)) = NumTasks * Len(DEFAULT_MODES))

EarlyExits == {"exit_usage", "exit_no_repo", "exit_no_api_key", "exit_no_package"}

NothingRan ==
    /\ stages = <<>>
    /\ AllRecords = <<>>
    /\ statuses = <<>>
    /\ result = NewResult
    /\ tree = CleanTree
    /\ \A m \in ModeNames : summary[m].total = 0

\* C15: the program stops before the end of the matrix only at start-up,
\* for a missing credential or provider package or a selection the command
\* line does not accept, and then nothing of a run has happened: no reset, no
\* test invocation, no provider call.
C15_EarlyExitOnlyBeforeRuns ==
    pc \in (EarlyExits \cup {"crashed"}) =>
        /\ pc \in EarlyExits
        /\ NothingRan

\* the regions of the response with an annotation inside the window, the
\* regions with something to write, and the regions that become a change
Annotated(resp) == { i \in 1..Len(resp) : resp[i].line \in 1..AnnotationWindow }

NonEmpty(resp) == { i \in 1..Len(resp) : resp[i].code # 0 }

Changes(resp) == Annotated(resp) \cap NonEmpty(resp)

\* position, among the blocks handed to apply, of the change of region i
BlockOf(resp, i) == Cardinality({ k \in Changes(resp) : k <= i })

ExtractReturned == stages # <<>> /\ stages[Len(stages)][1] = "EXTRACT"

ApplyReturned == stages # <<>> /\ stages[Len(stages)][1] = "APPLY"

\* C16: whatever the apply step of a run changes in the working tree comes
\* from a fenced region with a recognised path annotation for that path; the
\* code of a region without one is never written, wherever the region stands.
C16_UnlabelledNeverWritten ==
    [][pc = "apply" =>
         /\ \A p \in Paths :
              tree'[p] # tree[p] =>
                  \E i \in Annotated(response) :
                      response[i].file = p /\ response[i].code = tree'[p]
         /\ \A k \in 1..Len(result'.files_modified) :
              \E i \in Annotated(response) :
                  response[i].file = result'.files_modified[k]]_vars

\* an unlabelled region with code stands before a labelled one that is written
C16_Witness ==
    /\ ApplyReturned
    /\ Len(response) = 2
    /\ response[1].line = 0 /\ response[1].code # 0
    /\ response[2].line = 1 /\ response[2].code # response[1].code
    /\ tree[response[2].file] = response[2].code
    /\ result.files_modified = << response[2].file >>

\* C17 (as claimed): the number of changes extract returns, which the run
\* records as extracted, equals the number of path-annotated regions.
C17_ExtractedEqualsAnnotated ==
    ExtractReturned =>
        result.code_blocks_extracted = Cardinality(Annotated(response))

\* C17 (amended): extract returns, and the run records as extracted, one
\* block per region with non-empty code, annotated or not; the changes handed
\* to apply are those of the regions that have a recognised annotation and
\* non-empty code, in document order.
C17_ExtractedEqualsNonEmpty ==
    ExtractReturned =>
        /\ result.code_blocks_extracted = Cardinality(NonEmpty(response))
        /\ Len(blocks) = Cardinality(Changes(response))
        /\ \A i \in Changes(response) :
             blocks[BlockOf(response, i)]
                = [file |-> response[i].file, code |-> response[i].code]

\* one labelled and one unlabelled region: two blocks extracted, one change
C17_Witness ==
    /\ ExtractReturned
    /\ Len(response) = 2
    /\ Cardinality(Annotated(response)) = 1
    /\ Cardinality(NonEmpty(response)) = 2
    /\ result.code_blocks_extracted = 2
    /\ Len(blocks) = 1

\* the regions of the response annotated (inside the window) with path p
AnnotatedFor(resp, p) == { i \in Annotated(resp) : resp[i].file = p }

Max(S) == CHOOSE x \in S : \A y \in S : y <= x

Written == (1..Len(blocks)) \ write_failures'

\* C19: in the apply step a block whose write fails is left out of the
\* returned list, every other block is written (the file has the code of the
\* last written block for its path) and listed in order, no other path is
\* touched, and the run goes on to its post-test without an error.
C19_FailedWriteSkipsOnlyThatBlock ==
    [][pc = "apply" =>
         /\ pc' = "post_test"
         /\ result'.error = None
         /\ Len(result'.files_modified) = Cardinality(Written)
         /\ \A i \in Written :
              /\ result'.files_modified[Cardinality({ k \in Written : k <= i })]
                    = blocks[i].file
              /\ tree'[blocks[i].file]
                    = blocks[Max({ k \in Written : blocks[k].file = blocks[i].file })].code
         /\ \A p \in Paths :
              (\A i \in 1..Len(blocks) : blocks[i].file # p) => tree'[p] = tree[p]]_vars

\* the first write failed and the second block was still written
C19_Witness ==
    /\ ApplyReturned
    /\ Len(blocks) = 2
    /\ write_failures = {1}
    /\ blocks[1].file # blocks[2].file
    /\ result.files_modified = << blocks[2].file >>
    /\ tree[blocks[2].file] = blocks[2].code
    /\ result.error = None

NoBlocksRun ==
    pc = "aggregate" /\ result.error = "No code blocks with filepath extracted"

\* C20 (as claimed): a run without a path-annotated block returns its record
\* with nothing written and no post-test, is counted as a failed run of its
\* mode, and the controller goes on with the next pair.
C20_NoBlocksCountedFailed ==
    [][NoBlocksRun =>
         /\ result.files_modified = <<>>
         /\ result.post_test = <<>>
         /\ summary'[CurMode].failed = summary[CurMode].failed + 1
         /\ pc' \in {"reset", "persist"}]_vars

\* C20 (amended): a run without a path-annotated block returns its record
\* with the error set, nothing written and no post-test; it is counted under
\* errors (not under failed or passed) of its mode with status ERROR, and
\* the controller goes on with the next pair.
C20_NoBlocksCountedError ==
    [][NoBlocksRun =>
         /\ result.files_modified = <<>>
         /\ result.post_test = <<>>
         /\ ~result.success
         /\ summary'[CurMode].errors = summary[CurMode].errors + 1
         /\ summary'[CurMode].total = summary[CurMode].total + 1
         /\ summary'[CurMode].failed = summary[CurMode].failed
         /\ summary'[CurMode].passed = summary[CurMode].passed
         /\ statuses' = Append(statuses, "ERROR")
         /\ tree' = tree
         /\ pc' \in {"reset", "persist"}]_vars

C20_Witness ==
    /\ pc = "reset"
    /\ mi = 2
    /\ Len(task_results) = 1
    /\ task_results[1].error = "No code blocks with filepath extracted"
    /\ summary[DEFAULT_MODES[1]].errors = 1
    /\ summary[DEFAULT_MODES[1]].failed = 0

\* ------------------------------------------------- the adapter on its own
\* The controller before it has started anything: what every specification
\* of a single function keeps fixed.
ControllerIdle ==
    /\ ti = 1
    /\ mi = 1
    /\ result = NewResult
    /\ response = <<>>
    /\ blocks = <<>>
    /\ tree = CleanTree
    /\ stages = <<>>
    /\ classification = None
    /\ reg_flips = 0
    /\ summary = [m \in ModeNames |-> [total |-> 0, passed |-> 0, failed |-> 0, errors |-> 0]]
    /\ test_improvements = [m \in ModeNames |-> 0]
    /\ true_regressions = [m \in ModeNames |-> 0]
    /\ task_results = <<>>
    /\ tasks = <<>>
    /\ statuses = <<>>
    /\ persisted = 0
    /\ write_failures = {}

\* run_tests_for_task.py called from the command line
AdapterInit ==
    /\ pc = "adapter"
    /\ ControllerIdle
    /\ stdout = <<>>
    /\ adapter = NotCalled
    /\ fs = NoApply

\* main() of the adapter: one selection, and sys.exit with what it returns
AdapterMain ==
    /\ pc = "adapter"
    /\ \E a \in AdapterInputs :
        adapter' = << [input     |-> a,
                       invoked   |-> adapter_invocations(a),
                       exit_code |-> adapter_main(a)] >>
    /\ pc' = "adapter_exit"
    /\ UNCHANGED <<ti, mi, result, response, blocks, tree, stages, classification,
                   reg_flips, summary, test_improvements, true_regressions,
                   task_results, tasks, statuses, persisted, write_failures,
                   stdout, fs>>

AdapterNext == AdapterMain

AdapterSpec == AdapterInit /\ [][AdapterNext]_vars

\* --------------------------------------------- resets that follow each other
\* The controller started on a working tree in any condition; the runs of
\* the first task that end before anything is written, so that the reset
\* of a run acts on the tree the reset of the run before it left.
ResetInit ==
    /\ pc = "reset"
    /\ ti = 1
    /\ mi = 1
    /\ result = NewResult
    /\ response = <<>>
    /\ blocks = <<>>
    /\ tree \in [Paths -> 0..MaxContent]
    /\ stages = <<>>
    /\ classification = None
    /\ reg_flips = 0
    /\ summary = [m \in ModeNames |-> [total |-> 0, passed |-> 0, failed |-> 0, errors |-> 0]]
    /\ test_improvements = [m \in ModeNames |-> 0]
    /\ true_regressions = [m \in ModeNames |-> 0]
    /\ task_results = <<>>
    /\ tasks = <<>>
    /\ statuses = <<>>
    /\ persisted = 0
    /\ write_failures = {}
    /\ stdout = <<>>
    /\ adapter = NotCalled
    /\ fs = NoApply

ResetNext ==
    \/ InFirstTask /\ Reset
    \/ InFirstTask /\ PreTest
    \/ InFirstTask /\ LoadPrompt
    \/ InFirstTask /\ InvokeAgentFail
    \/ InFirstTask /\ Aggregate

ResetSpec == ResetInit /\ [][ResetNext]_vars

\* ------------------------------------------- run_tests on a given output
\* run_tests after the adapter has returned: any output, any exit code
ParseInit ==
    /\ pc = "run_tests"
    /\ ControllerIdle
    /\ stdout \in Stdouts
    /\ adapter = NotCalled
    /\ fs = NoApply

RunTestsOnOutput ==
    /\ pc = "run_tests"
    /\ \E e \in {0, 1} :
        result' = [result EXCEPT !.pre_test =
                      << run_tests([exit_code |-> e,
                                    n_passed  |-> parse_counts(stdout).n_passed,
                                    n_failed  |-> parse_counts(stdout).n_failed]) >>]
    /\ pc' = "tests_run"
    /\ UNCHANGED <<ti, mi, response, blocks, tree, stages, classification,
                   reg_flips, summary, test_improvements, true_regressions,
                   task_results, tasks, statuses, persisted, write_failures,
                   stdout, adapter, fs>>

ParseNext == RunTestsOnOutput

ParseSpec == ParseInit /\ [][ParseNext]_vars

\* ------------------------------------------------ apply and the directories
\* apply_code_blocks on a list of annotated blocks, in a repository with
\* any of the directories present
ResolveInit ==
    /\ pc = "resolve"
    /\ ControllerIdle
    /\ stdout = <<>>
    /\ adapter = NotCalled
    /\ fs \in { [dirs0 |-> D, dirs |-> D, changes |-> c, next |-> 1, written |-> <<>>] :
                  D \in InitialDirs, c \in SeqsUpTo(PathDirs, MaxChanges) }

\* one iteration of the loop over the blocks
ApplyChange ==
    /\ pc = "resolve"
    /\ fs.next <= Len(fs.changes)
    /\ fs' = [fs EXCEPT
                !.dirs    = mkdir_parents(resolve(fs.changes[fs.next], fs.dirs), fs.dirs),
                !.written = Append(fs.written,
                                   [path |-> fs.changes[fs.next],
                                    at   |-> resolve(fs.changes[fs.next], fs.dirs)]),
                !.next    = fs.next + 1]
    /\ pc' = IF fs.next = Len(fs.changes) THEN "applied" ELSE "resolve"
    /\ UNCHANGED <<ti, mi, result, response, blocks, tree, stages, classification,
                   reg_flips, summary, test_improvements, true_regressions,
                   task_results, tasks, statuses, persisted, write_failures,
                   stdout, adapter>>

ResolveNext == ApplyChange

ResolveSpec == ResolveInit /\ [][ResolveNext]_vars

\* -------------------------------------------------------- claims C21..C30
\* C21: a run whose task has no test target, like a run whose prompt file is
\* missing, is aborted with an error in its record before the provider is
\* invoked and before anything is written.
C21_ConfigErrorAbortsBeforeProvider ==
    /\ \A i \in 1..Len(stages) : stages[i][1] \notin {"INVOKE_AGENT", "EXTRACT", "APPLY"}
    /\ pc = "aggregate" => result.error # None
    /\ tree = CleanTree

ProviderEntries == { i \in 1..Len(stages) : stages[i][1] = "INVOKE_AGENT" }

\* C22: the provider is called at most once in a run; when the call fails it
\* is the last stage of the run, the run's error is set, and the run has no
\* extracted block, no written file and no post-test.
C22_ProviderFailureEndsRun ==
    /\ Cardinality(ProviderEntries) <= 1
    /\ \A i \in ProviderEntries :
         stages[i][2] = "fail" =>
             /\ i = Len(stages)
             /\ pc = "aggregate"
             /\ result.error = "provider error"
             /\ result.code_blocks_extracted = 0
             /\ result.files_modified = <<>>
             /\ result.post_test = <<>>
    /\ \A r \in RecordsSoFar : r.error = "provider error" => ~r.has_post_test

C22_Witness ==
    /\ pc = "aggregate"
    /\ mi = 2
    /\ result.error = "provider error"
    /\ stages[Len(stages)] = <<"INVOKE_AGENT", "fail">>

\* the suites a selection asks for, and what pytest returns for each
SelectedSuites(selection) ==
    CASE selection = "task"                 -> {"task"}
      [] selection = "all"                  -> {"all"}
      [] selection = "task_with_regression" -> {"task", "regression"}
      [] selection = "regression_only"      -> {"regression"}

SuiteExit(a, suite) ==
    CASE suite = "task"       -> a.task_rc
      [] suite = "regression" -> a.regression_rc
      [] suite = "all"        -> a.all_rc

\* C23: in each selection mode the adapter exits 0 only if every suite of
\* the selection was run by pytest and pytest exited 0 for it; with the
\* regression suite included, only if both invocations exited 0.
C23_ExitZeroOnlyIfAllRunAndPassed ==
    adapter # NotCalled =>
        (adapter[1].exit_code = 0 =>
            \A suite \in SelectedSuites(adapter[1].input.selection) :
                /\ suite \in adapter[1].invoked
                /\ SuiteExit(adapter[1].input, suite) = 0)

\* the run before the current one got past its reset
PreviousResetSucceeded ==
    /\ Len(task_results) >= 1
    /\ task_results[Len(task_results)].error # "Failed to reset repository"

\* C24: a reset that follows a successful reset with nothing written in
\* between leaves the tree as it found it, whatever its own outcome, and
\* that tree has every version-controlled file at its committed content
\* and no untracked file.
C24_ResetIdempotent ==
    [][ (pc = "reset" /\ PreviousResetSucceeded) =>
            /\ tree' = tree
            /\ tree'["tracked"] = HEAD
            /\ tree'["untracked"] = HEAD ]_vars

C24_Witness ==
    /\ pc = "pre_test"
    /\ mi = 2
    /\ PreviousResetSucceeded
    /\ tree["ignored"] # HEAD
    /\ tree["untracked"] = HEAD

\* lines of the output that carry a count
IsSummary(line) == line.passed # NoMatch \/ line.failed # NoMatch

SummaryLines == { i \in 1..Len(stdout) : IsSummary(stdout[i]) }

CountOf(line, field) == IF line[field] = NoMatch THEN 0 ELSE line[field]

\* C25: the passed and failed counts of the TestResult are those of the
\* last line of the output that carries a count, both taken from that line.
C25_CountsFromLastSummaryLine ==
    (pc = "tests_run" /\ SummaryLines # {}) =>
        /\ result.pre_test[1].tests_passed = CountOf(stdout[Max(SummaryLines)], "passed")
        /\ result.pre_test[1].tests_failed = CountOf(stdout[Max(SummaryLines)], "failed")

\* C26: the total of a TestResult is the sum of its passed and failed
\* counts, and an output without any count gives three zeros whatever the
\* exit code is.
C26_TotalIsSum ==
    pc = "tests_run" =>
        /\ result.pre_test[1].tests_total =
              result.pre_test[1].tests_passed + result.pre_test[1].tests_failed
        /\ SummaryLines = {} =>
              /\ result.pre_test[1].tests_passed = 0
              /\ result.pre_test[1].tests_failed = 0
              /\ result.pre_test[1].tests_total = 0

C26_Witness ==
    /\ pc = "tests_run"
    /\ Len(stdout) = MaxLines
    /\ SummaryLines = {}
    /\ result.pre_test[1].exit_code = 1
    /\ result.pre_test[1].tests_total = 0

\* the change the next iteration of apply takes, and where it puts it
ApplyStep == pc = "resolve" /\ fs.next <= Len(fs.changes)

CurrentChange == fs.changes[fs.next]

Redirected(w) == w.at = <<BACKEND>> \o w.path

HasBackendPrefix(d) == d # <<>> /\ d[1] = BACKEND

\* C27 as stated: a change is written under the backend prefix exactly when
\* its parent directory is missing under the root and its path does not
\* already start with the backend root; otherwise at root/path.
C27_RedirectedIffMissingAndUnprefixed ==
    [][ ApplyStep =>
            fs'.written[fs.next].at =
                IF CurrentChange \notin fs.dirs /\ ~HasBackendPrefix(CurrentChange)
                THEN <<BACKEND>> \o CurrentChange
                ELSE CurrentChange ]_vars

\* C27 amended: a change is written under "backend" exactly when its parent
\* directory is missing under the root and either the same directory exists
\* under "backend" or the path starts with "app/"; otherwise at root/path.
C27_RedirectedIffMissingAndBackendHasIt ==
    [][ ApplyStep =>
            /\ Redirected(fs'.written[fs.next]) <=>
                  /\ CurrentChange \notin fs.dirs
                  /\ \/ (<<BACKEND>> \o CurrentChange) \in fs.dirs
                     \/ starts_with_app(CurrentChange)
            /\ ~Redirected(fs'.written[fs.next]) =>
                  fs'.written[fs.next].at = CurrentChange ]_vars

C27_Witness ==
    /\ pc = "applied"
    /\ \E i \in 1..Len(fs.written) :
          /\ Redirected(fs.written[i])
          /\ fs.written[i].path = <<"app">>
          /\ <<BACKEND>> \notin fs.dirs0
    /\ \E i \in 1..Len(fs.written) :
          /\ ~Redirected(fs.written[i])
          /\ fs.written[i].path = <<"pkg">>
          /\ <<"pkg">> \notin fs.dirs0

\* C29: every file apply writes is inside the repository root.
C29_WritesInsideRoot ==
    \A i \in 1..Len(fs.written) :
        \A k \in 1..Len(fs.written[i].at) : fs.written[i].at[k] # UP

PairwiseDistinct(seq) ==
    \A i, j \in 1..Len(seq) : i # j => seq[i] # seq[j]

\* C30: for changes with pairwise distinct paths, each change is written
\* where it would be written if it were applied alone to the initial tree.
C30_LocationIndependentOfOrder ==
    (pc = "applied" /\ PairwiseDistinct(fs.changes)) =>
        \A i \in 1..Len(fs.written) :
            fs.written[i].at = resolve(fs.written[i].path, fs.dirs0)

\* the stored records of one mode
RecordsOfMode(m) == { i \in 1..Len(AllRecords) : AllRecords[i].mode = m }

\* C28: for every mode, total = passed + failed + errors; every stored run
\* is counted under exactly one of the three, a run with an error under
\* errors, a run without error under passed or failed by its success flag.
C28_TotalIsSumOfOutcomes ==
    \A m \in ModeNames :
        /\ summary[m].total = summary[m].passed + summary[m].failed + summary[m].errors
        /\ summary[m].total = Cardinality(RecordsOfMode(m))
        /\ summary[m].errors =
              Cardinality({ i \in RecordsOfMode(m) : AllRecords[i].error # None })
        /\ summary[m].passed =
              Cardinality({ i \in RecordsOfMode(m) :
                              AllRecords[i].error = None /\ AllRecords[i].success })
        /\ summary[m].failed =
              Cardinality({ i \in RecordsOfMode(m) :
                              AllRecords[i].error = None /\ ~AllRecords[i].success })

C28_Witness ==
    /\ pc = "persist"
    /\ Len(AllRecords) = Len(DEFAULT_MODES)
    /\ summary[DEFAULT_MODES[1]].errors = 1
    /\ summary[DEFAULT_MODES[2]].passed + summary[DEFAULT_MODES[2]].failed = 1
====
